---- MODULE Spec2Model ----
(***************************************************************************)
(* Signal-Equalizer front-end: the top-level state holder (App), the       *)
(* equalizer control panel (EqualizerControls) and the separation workflow *)
(* (AudioSeparation), as state machines.                                   *)
(*                                                                         *)
(* Gains are JavaScript numbers with slider step 0.01; the model holds     *)
(* them in hundredths (100 = 1.0x, 200 = 2.0x).  One step of the model is  *)
(* one task of the browser's event loop (a user event, a timer expiry, the *)
(* settling of a backend promise) together with the React render and the   *)
(* effects it triggers.  localStorage is taken to accept every write.      *)
(***************************************************************************)
EXTENDS Integers, Sequences, FiniteSets, TLC

\* ------------------------------------------------------------------ bounds
\* Total number of user gestures (upload, slider, reset, band edit, mode) in a run.
MaxActions == 3
\* Number of slider movements in a run.
MaxMoves == 2
\* Longest custom band list.
MaxBands == 5

\* --------------------------------------------------------------- constants
Unity == 100
GainMin == 0
GainMax == 200
\* JavaScript's undefined, where a number is expected (a missing array slot or field).
Undefined == -1

Null == "null"
Files == {"a.wav", "b.wav"}
Modes == {"generic", "music", "animal", "human"}
\* The modes for which an upload asks the backend for an FFT.
EqualizerModes == {"generic", "music", "animal", "human"}
\* currentSubMode starts undefined; only the comparison with 'ai' is ever made.
SubModes == {"undefined", "ai"}
\* Raw slider inputs (hundredths): below the range, inside it, above it.
SliderInputs == {-50, 50, 250}

\* ----------------------------------------------------------------- helpers
Max(a, b) == IF a > b THEN a ELSE b
Min(a, b) == IF a < b THEN a ELSE b

\* x || d  for a number-or-undefined x: 0 and undefined are falsy.
OrElse(x, d) == IF x = Undefined \/ x = 0 THEN d ELSE x

Band(s, e, g) == [low |-> Undefined, high |-> Undefined, startFreq |-> s, endFreq |-> e, gain |-> g]
LowHighBand(l, h, g) == [low |-> l, high |-> h, startFreq |-> Undefined, endFreq |-> Undefined, gain |-> g]

getInitialBands ==
  << Band(0, 5000, Unity), Band(5000, 10000, Unity),
     Band(10000, 15000, Unity), Band(15000, 24000, Unity) >>

\* JSON.stringify of a band array: per band, the pairs <<key, value>> of the
\* fields that are defined, in insertion order (undefined fields are dropped).
BandFields(b) ==
  << <<"low", b.low>>, <<"high", b.high>>, <<"startFreq", b.startFreq>>,
     <<"endFreq", b.endFreq>>, <<"gain", b.gain>> >>
IsDefinedPair(p) == p[2] # Undefined
JSONStringify(bands) == [i \in 1..Len(bands) |-> SelectSeq(BandFields(bands[i]), IsDefinedPair)]

\* The value of key k in a parsed JSON object (undefined when absent).
Field(obj, k) ==
  IF \E i \in 1..Len(obj) : obj[i][1] = k
  THEN LET i == CHOOSE j \in 1..Len(obj) : obj[j][1] = k IN obj[i][2]
  ELSE Undefined
JSONParse(text) ==
  [i \in 1..Len(text) |->
     [low |-> Field(text[i], "low"), high |-> Field(text[i], "high"),
      startFreq |-> Field(text[i], "startFreq"), endFreq |-> Field(text[i], "endFreq"),
      gain |-> Field(text[i], "gain")]]

\* Audio buffers and backend results are opaque: they are named by what produced them.
NullBuffer == [kind |-> Null, file |-> Null, bands |-> <<>>]
Decoded(f) == [kind |-> "decoded", file |-> f, bands |-> <<>>]
Equalized(f, bands) == [kind |-> "equalized", file |-> f, bands |-> bands]
NullFft == [op |-> Null, file |-> Null, bands |-> <<>>, outputAudioUrl |-> FALSE]
BackendResult(op, f, bands, url) == [op |-> op, file |-> f, bands |-> bands, outputAudioUrl |-> url]

\* getSliderLabels: the fixed [low, high] ranges stand for the six labels of a preset mode.
PresetRanges(mode) ==
  CASE mode = "music"  -> << <<60, 200>>, <<80, 250>>, <<200, 800>>, <<250, 4000>>, <<300, 3500>>, <<500, 8000>> >>
    [] mode = "animal" -> << <<500, 1000>>, <<600, 1500>>, <<1000, 8000>>, <<20, 200>>, <<15, 100>>, <<400, 800>> >>
    [] mode = "human"  -> << <<85, 180>>, <<165, 255>>, <<250, 400>>, <<85, 180>>, <<165, 255>>, <<80, 200>> >>
    [] OTHER -> <<>>
getSliderLabels(mode) ==
  CASE mode = "music"  -> << "Drums", "Bass", "Guitar", "Piano", "Vocals", "Synth" >>
    [] mode = "animal" -> << "Dog", "Cat", "Bird", "Whale", "Elephant", "Wolf" >>
    [] mode = "human"  -> << "Male 1", "Female 1", "Child", "Male 2", "Female 2", "Elder" >>
    [] OTHER -> <<>>


\* ------------------------------------------------------------------- state
VARIABLES
  \* App (top-level state holder)
  currentMode, currentSubMode, uploadedAudioFile, inputAudioBuffer, outputAudioBuffer,
  fftData, isLoadingAudio, customBands, isProcessingEqualizer, localStorage,
  \* EqualizerControls (exists only while it is rendered)
  values, latestValuesRef, debounceTimer,
  \* the timeouts set by the panel that have neither fired nor been cleared
  liveTimeouts,
  \* promises awaiting the backend
  eqRequests, uploads,
  \* observation: the alert shown by the last step, the last step's name, gesture counters
  alert, last, nActions, nMoves

appVars == << currentMode, currentSubMode, uploadedAudioFile, inputAudioBuffer, outputAudioBuffer,
              fftData, isLoadingAudio, customBands, isProcessingEqualizer, localStorage >>
panelVars == << values, latestValuesRef, debounceTimer, liveTimeouts >>
eqVars == << appVars, panelVars, eqRequests, uploads, alert, last, nActions, nMoves >>

\* The callback a pending debounce timer will run closes over the props of the
\* render in which the slider moved.
\* (burst, gesture and cleared are observations: the slider movements since the
\* timer became pending, the gesture count at the last of them, and whether the
\* unmount cleanup cleared a pending timer.)
NoTimer ==
  [pending |-> FALSE, mode |-> Null, customBands |-> <<>>, values |-> <<>>, audioFile |-> Null,
   isProcessingEqualizer |-> FALSE, inputAudioBuffer |-> NullBuffer, burst |-> 0, gesture |-> 0,
   cleared |-> FALSE]

\* A different clearTimeout, which would leave the timeout to run.
TimeoutNotCleared(n, tmr) == n
\* clearTimeout(debounceTimerRef.current): the live timeouts left of n.
ClearTimeout(n, tmr) == IF tmr.pending THEN n - 1 ELSE n

\* The unmount cleanup: what is left of the timer the ref holds.
UnmountCleanup(tmr) == IF tmr.pending THEN [NoTimer EXCEPT !.cleared = TRUE] ELSE NoTimer

\* App render: EqualizerControls is rendered unless loading or in the AI sub-mode.
PanelShown(loading, subMode) == ~loading /\ subMode # "ai"

Labels(mode, bands) == IF mode = "generic" THEN bands ELSE getSliderLabels(mode)

Ones(n) == [i \in 1..n |-> Unity]

\* useState initialiser of values: customBands.map(b => b?.gain || 1).
InitialValues(mode, bands) ==
  IF mode = "generic" THEN [i \in 1..Len(bands) |-> OrElse(bands[i].gain, Unity)]
  ELSE Ones(Len(getSliderLabels(mode)))

\* The [mode, customBands.length] effect; it also runs right after mounting and
\* then replaces what the initialiser produced.
EffectValues(mode, bands) ==
  IF mode = "generic"
  THEN [i \in 1..Len(bands) |-> IF bands[i].gain # Undefined THEN bands[i].gain ELSE Unity]
  ELSE Ones(Len(Labels(mode, bands)))

\* The values of a freshly mounted panel once its first effects have run: the
\* effect's setValues replaces the initialiser's result.
MountValues(mode, bands) ==
  LET initial == InitialValues(mode, bands)
      afterEffect == EffectValues(mode, bands)
  IN afterEffect

\* The panel after the App state of this step is committed: unmounted (its
\* cleanup clears the timer), freshly mounted, or re-rendered with vals/tmr;
\* n is the number of live timeouts the handler of this step leaves.
PanelRender(vals, tmr, n) ==
  LET before == PanelShown(isLoadingAudio, currentSubMode)
      after  == PanelShown(isLoadingAudio', currentSubMode')
      rerun  == currentMode' # currentMode \/ Len(customBands') # Len(customBands)
  IN /\ values' = IF ~after THEN <<>>
                  ELSE IF ~before THEN MountValues(currentMode', customBands')
                  ELSE IF rerun THEN EffectValues(currentMode', customBands')
                  ELSE vals
     /\ latestValuesRef' = values'
     /\ debounceTimer' = IF before /\ after THEN tmr
                         ELSE IF before THEN UnmountCleanup(tmr)
                         ELSE IF after THEN NoTimer
                         ELSE debounceTimer
     /\ liveTimeouts' = IF before /\ ~after THEN ClearTimeout(n, tmr) ELSE n

\* A different save effect, which would not run again when customBands changes.
UnsavedText(b) == localStorage.text
\* The save effect: localStorage.setItem(STORAGE_KEY, JSON.stringify(customBands)).
SavedText(b) == JSONStringify(b)

\* setCustomBands(b): the state and, through the save effect, the stored text.
SetCustomBands(b) ==
  /\ customBands' = b
  /\ localStorage' = [present |-> TRUE, text |-> SavedText(b)]

\* Storage on a first run: the key is absent.
FirstRun == [present |-> FALSE, text |-> <<>>]

\* The useState initialiser of customBands: the stored list when it parses to
\* a non-empty array, the default bands otherwise.
InitialCustomBands(storage) ==
  IF storage.present
  THEN LET parsed == JSONParse(storage.text)
       IN IF Len(parsed) > 0 THEN parsed ELSE getInitialBands
  ELSE getInitialBands

EqInit ==
  /\ currentMode = "generic"
  /\ currentSubMode = "undefined"
  /\ uploadedAudioFile = Null
  /\ inputAudioBuffer = NullBuffer
  /\ outputAudioBuffer = NullBuffer
  /\ fftData = NullFft
  /\ isLoadingAudio = FALSE
  /\ customBands = InitialCustomBands(FirstRun)
  /\ localStorage = [present |-> TRUE, text |-> JSONStringify(customBands)]
  /\ isProcessingEqualizer = FALSE
  /\ values = MountValues("generic", getInitialBands)
  /\ latestValuesRef = values
  /\ debounceTimer = NoTimer
  /\ liveTimeouts = 0
  /\ eqRequests = <<>>
  /\ uploads = <<>>
  /\ alert = "none"
  /\ last = "init"
  /\ nActions = 0
  /\ nMoves = 0

Gesture == nActions < MaxActions /\ nActions' = nActions + 1

RemoveAt(s, i) == [j \in 1..(Len(s) - 1) |-> IF j < i THEN s[j] ELSE s[j + 1]]


\* ------------------------------------------------------ EqualizerControls
handleBandGainChange(bands, index, newGain) ==
  IF index \in 1..Len(bands) THEN [bands EXCEPT ![index].gain = newGain] ELSE bands

\* A different handler, which would take the value as the event gives it.
Unclamped(newValue) == newValue
\* Math.max(0, Math.min(2, newValue))
Clamp(newValue) == Max(GainMin, Min(GainMax, newValue))

\* A different handler, which would start the timer with or without a file.
TimerAlways(audioFile) == TRUE
\* if (audioFile && onEqualizerChange): the App always passes the callback.
TimerWanted(audioFile) == audioFile # Null

\* handleSliderChange(index, newValue)
HandleSliderChange(index, newValue) ==
  /\ PanelShown(isLoadingAudio, currentSubMode)
  /\ index \in 1..Len(Labels(currentMode, customBands))
  /\ Gesture
  /\ nMoves < MaxMoves /\ nMoves' = nMoves + 1
  /\ LET clampedValue == Clamp(newValue)
         newValues == [values EXCEPT ![index] = clampedValue]
         tmr == IF TimerWanted(uploadedAudioFile)
                THEN [pending |-> TRUE, mode |-> currentMode, customBands |-> customBands,
                      values |-> values, audioFile |-> uploadedAudioFile,
                      isProcessingEqualizer |-> isProcessingEqualizer,
                      inputAudioBuffer |-> inputAudioBuffer,
                      burst |-> debounceTimer.burst + 1, gesture |-> nActions + 1,
                      cleared |-> FALSE]
                ELSE debounceTimer
         live == IF TimerWanted(uploadedAudioFile)
                 THEN ClearTimeout(liveTimeouts, debounceTimer) + 1
                 ELSE liveTimeouts
     IN /\ IF currentMode = "generic"
           THEN SetCustomBands(handleBandGainChange(customBands, index, clampedValue))
           ELSE UNCHANGED << customBands, localStorage >>
        /\ UNCHANGED << currentMode, currentSubMode, uploadedAudioFile, inputAudioBuffer,
                        outputAudioBuffer, fftData, isLoadingAudio, isProcessingEqualizer >>
        /\ PanelRender(newValues, tmr, live)
  /\ UNCHANGED << eqRequests, uploads >>
  /\ alert' = "none"
  /\ last' = "handleSliderChange"

\* A different reset, which would keep the ranges and restore the gains only.
ResetGainsOnly(bands) == [i \in 1..Len(bands) |-> [bands[i] EXCEPT !.gain = Unity]]
\* handleResetBands: the band list it installs.
handleResetBands(bands) == getInitialBands

\* A different reset, which would cancel the pending call.
TimerCancelled(tmr) == NoTimer
\* handleReset touches neither debounceTimerRef nor onEqualizerChange: the
\* timer it leaves.
TimerAfterReset(tmr) == tmr

\* handleReset, which calls the App's handleResetBands
HandleReset ==
  /\ PanelShown(isLoadingAudio, currentSubMode)
  /\ Gesture
  /\ SetCustomBands(handleResetBands(customBands))
  /\ UNCHANGED << currentMode, currentSubMode, uploadedAudioFile, inputAudioBuffer,
                  outputAudioBuffer, fftData, isLoadingAudio, isProcessingEqualizer >>
  /\ PanelRender(Ones(Len(Labels(currentMode, customBands))), TimerAfterReset(debounceTimer),
                 liveTimeouts)
  /\ UNCHANGED << eqRequests, uploads, nMoves >>
  /\ alert' = "none"
  /\ last' = "handleReset"

\* A different callback, which would read the values state it closed over.
StaleClosureValues(tmr, ref) == tmr.values
\* The value the timer callback reads for the gains: latestValuesRef.current.
TimerCurrentValues(tmr, ref) == ref

\* The band list the timer callback builds from the labels it closed over.
BuildBands(tmr, currentValues) ==
  [idx \in 1..Len(Labels(tmr.mode, tmr.customBands)) |->
     LET currentGain == IF idx <= Len(currentValues) THEN currentValues[idx] ELSE Undefined
         ranges == PresetRanges(tmr.mode)
     IN IF tmr.mode = "generic"
        THEN LET b == tmr.customBands[idx]
             IN [low  |-> IF b.low # Undefined THEN b.low ELSE OrElse(b.startFreq, 0),
                 high |-> IF b.high # Undefined THEN b.high ELSE OrElse(b.endFreq, 20000),
                 gain |-> currentGain]
        ELSE [low  |-> IF idx <= Len(ranges) THEN ranges[idx][1] ELSE 0,
              high |-> IF idx <= Len(ranges) THEN ranges[idx][2] ELSE 20000,
              gain |-> currentGain]]

\* A different handler, without the guard.
GuardOmitted(tmr) == FALSE
\* handleEqualizerChange's guard, on the flag the callback closed over.
AlreadyProcessing(tmr) == tmr.isProcessingEqualizer

\* Expiry of the debounce timer: the callback, up to its first real await.
TimerFire ==
  /\ debounceTimer.pending
  /\ LET tmr == debounceTimer
         bands == BuildBands(tmr, TimerCurrentValues(tmr, latestValuesRef))
     IN IF \E i \in 1..Len(bands) : bands[i].gain = Undefined
        THEN \* b.gain.toFixed(3) throws before onEqualizerChange is reached
             /\ alert' = "Equalizer error"
             /\ last' = "TimerFireError"
             /\ UNCHANGED << eqRequests, isProcessingEqualizer >>
        ELSE IF tmr.audioFile = Null \/ AlreadyProcessing(tmr)
        THEN /\ alert' = "none"
             /\ last' = "TimerFireSkipped"
             /\ UNCHANGED << eqRequests, isProcessingEqualizer >>
        ELSE /\ alert' = "none"
             /\ last' = "TimerFireCalled"
             /\ isProcessingEqualizer' = TRUE
             /\ eqRequests' = Append(eqRequests,
                  [file |-> tmr.audioFile, bands |-> bands,
                   inputAudioBuffer |-> tmr.inputAudioBuffer, phase |-> "updateEqualizerGains",
                   fftBefore |-> fftData, outputBefore |-> outputAudioBuffer,
                   burst |-> tmr.burst, closureValues |-> tmr.values])
  /\ UNCHANGED << currentMode, currentSubMode, uploadedAudioFile, inputAudioBuffer,
                  outputAudioBuffer, fftData, isLoadingAudio, customBands, localStorage >>
  /\ PanelRender(values, NoTimer, liveTimeouts - 1)
  /\ UNCHANGED << uploads, nActions, nMoves >>


\* --------------------------------------------- App: handleEqualizerChange
\* A different catch block, which would send the request again.
RetriedAfterFailure(requests, i) == [requests EXCEPT ![i].phase = "updateEqualizerGains"]
\* The catch block of handleEqualizerChange alerts and lets the call end: the
\* requests still awaited after request i has failed.
AfterFailure(requests, i) == RemoveAt(requests, i)

\* A different handler, without the finally block.
FlagLeft(flag) == flag
\* The finally block of handleEqualizerChange: setIsProcessingEqualizer(false).
ProcessingAfterAttempt(flag) == FALSE

\* updateEqualizerGains settles for request i: rejected, or resolved with or
\* without an outputAudioUrl.
EqRespond(i, outcome) ==
  /\ i \in 1..Len(eqRequests)
  /\ eqRequests[i].phase = "updateEqualizerGains"
  /\ LET r == eqRequests[i]
         result == BackendResult("updateEqualizerGains", r.file, r.bands, outcome = "url")
     IN CASE outcome = "reject" ->
               /\ alert' = "Failed to update equalizer"
               /\ last' = "EqRequestFailed"
               /\ isProcessingEqualizer' = ProcessingAfterAttempt(isProcessingEqualizer)
               /\ eqRequests' = AfterFailure(eqRequests, i)
               /\ UNCHANGED << fftData, outputAudioBuffer >>
          [] outcome = "url" ->
               /\ alert' = "none"
               /\ last' = "EqResponded"
               /\ fftData' = result
               /\ eqRequests' = [eqRequests EXCEPT ![i].phase = "loadAudioFile"]
               /\ UNCHANGED << isProcessingEqualizer, outputAudioBuffer >>
          [] OTHER ->
               /\ alert' = "none"
               /\ last' = "EqCompletedNoUrl"
               /\ fftData' = result
               /\ outputAudioBuffer' = r.inputAudioBuffer
               /\ isProcessingEqualizer' = ProcessingAfterAttempt(isProcessingEqualizer)
               /\ eqRequests' = RemoveAt(eqRequests, i)
  /\ UNCHANGED << currentMode, currentSubMode, uploadedAudioFile, inputAudioBuffer,
                  isLoadingAudio, customBands, localStorage >>
  /\ PanelRender(values, debounceTimer, liveTimeouts)
  /\ UNCHANGED << uploads, nActions, nMoves >>

\* loadAudioFile(result.outputAudioUrl) settles for request i.
EqLoad(i, ok) ==
  /\ i \in 1..Len(eqRequests)
  /\ eqRequests[i].phase = "loadAudioFile"
  /\ LET r == eqRequests[i]
     IN IF ok
        THEN /\ alert' = "none"
             /\ last' = "EqCompleted"
             /\ outputAudioBuffer' = Equalized(r.file, r.bands)
             /\ eqRequests' = RemoveAt(eqRequests, i)
        ELSE /\ alert' = "Failed to update equalizer"
             /\ last' = "EqLoadFailed"
             /\ UNCHANGED outputAudioBuffer
             /\ eqRequests' = AfterFailure(eqRequests, i)
  /\ isProcessingEqualizer' = ProcessingAfterAttempt(isProcessingEqualizer)
  /\ UNCHANGED << currentMode, currentSubMode, uploadedAudioFile, inputAudioBuffer, fftData,
                  isLoadingAudio, customBands, localStorage >>
  /\ PanelRender(values, debounceTimer, liveTimeouts)
  /\ UNCHANGED << uploads, nActions, nMoves >>

\* ------------------------------------------------- App: handleAudioUpload
\* A different upload, which would leave the band list alone.
BandsKeptOnUpload(bands) == bands
\* The band list handleAudioUpload installs before anything else.
BandsOnUpload(bands) == getInitialBands

\* A different handler, without the validation of audioBuffer.
ValidationOmitted(audioBuffer) == FALSE
\* if (!audioBuffer)
IsNullBuffer(audioBuffer) == audioBuffer = NullBuffer

\* A different request, which would carry the bands of the panel.
PanelBands(bands) == bands
\* The band list of the upload's request: uploadAndProcessFFT(file, []).
UploadBands(bands) == <<>>

\* handleAudioUpload(file, audioBuffer) up to its first await; decoded = FALSE
\* is a null audioBuffer.
HandleAudioUpload(file, decoded) ==
  /\ Gesture
  /\ IF IsNullBuffer(IF decoded THEN Decoded(file) ELSE NullBuffer)
     THEN /\ alert' = "Failed to load audio file"
          /\ last' = "UploadRejected"
          /\ UNCHANGED << appVars, panelVars, uploads >>
     ELSE /\ alert' = "none"
          /\ last' = "UploadStarted"
          /\ isLoadingAudio' = TRUE
          /\ SetCustomBands(BandsOnUpload(customBands))
          /\ uploadedAudioFile' = file
          /\ IF currentMode \in EqualizerModes
             THEN /\ uploads' = Append(uploads,
                                  [file |-> file,
                                   audioBuffer |-> IF decoded THEN Decoded(file) ELSE NullBuffer,
                                   bands |-> UploadBands(customBands),
                                   phase |-> "uploadAndProcessFFT"])
                  /\ UNCHANGED << inputAudioBuffer, outputAudioBuffer >>
             ELSE /\ uploads' = Append(uploads, [file |-> file, audioBuffer |-> Decoded(file),
                                                 bands |-> <<>>, phase |-> "delay"])
                  /\ inputAudioBuffer' = Decoded(file)
                  /\ outputAudioBuffer' = Decoded(file)
          /\ UNCHANGED << currentMode, currentSubMode, fftData, isProcessingEqualizer >>
          /\ PanelRender(values, debounceTimer, liveTimeouts)
  /\ UNCHANGED << eqRequests, nMoves >>

\* A different catch block, which would leave the buffers as they were.
BuffersKept(previous, audioBuffer) == previous
\* The catch block of handleAudioUpload: "Fallback to showing input as
\* output", the buffer both setInputAudioBuffer and setOutputAudioBuffer get.
FallbackBuffer(previous, audioBuffer) == audioBuffer

\* uploadAndProcessFFT(file, []) settles for upload i.
UploadRespond(i, ok) ==
  /\ i \in 1..Len(uploads)
  /\ uploads[i].phase = "uploadAndProcessFFT"
  /\ LET u == uploads[i]
     IN /\ inputAudioBuffer' =
             IF ok THEN u.audioBuffer ELSE FallbackBuffer(inputAudioBuffer, u.audioBuffer)
        /\ outputAudioBuffer' =
             IF ok THEN u.audioBuffer ELSE FallbackBuffer(outputAudioBuffer, u.audioBuffer)
        /\ IF ok
           THEN /\ alert' = "none"
                /\ last' = "UploadResponded"
                /\ fftData' = BackendResult("uploadAndProcessFFT", u.file, u.bands, FALSE)
                /\ uploads' = [uploads EXCEPT ![i].phase = "delay"]
                /\ UNCHANGED isLoadingAudio
           ELSE /\ alert' = "Failed to process audio"
                /\ last' = "UploadFailed"
                /\ isLoadingAudio' = FALSE
                /\ uploads' = RemoveAt(uploads, i)
                /\ UNCHANGED fftData
  /\ UNCHANGED << currentMode, currentSubMode, uploadedAudioFile, customBands, localStorage,
                  isProcessingEqualizer >>
  /\ PanelRender(values, debounceTimer, liveTimeouts)
  /\ UNCHANGED << eqRequests, nActions, nMoves >>

\* The 100 ms pause after a successful upload ends: the finally block.
UploadFinish(i) ==
  /\ i \in 1..Len(uploads)
  /\ uploads[i].phase = "delay"
  /\ isLoadingAudio' = FALSE
  /\ uploads' = RemoveAt(uploads, i)
  /\ UNCHANGED << currentMode, currentSubMode, uploadedAudioFile, inputAudioBuffer,
                  outputAudioBuffer, fftData, customBands, localStorage, isProcessingEqualizer >>
  /\ PanelRender(values, debounceTimer, liveTimeouts)
  /\ UNCHANGED << eqRequests, nActions, nMoves >>
  /\ alert' = "none"
  /\ last' = "UploadFinished"


\* ------------------------------------------------- App: the other handlers
\* Bands the top bar's add-band dialog may hand to handleAddBand.
BandInputs == { LowHighBand(100, 900, Unity), Band(2000, 3000, 50) }

\* Settings objects the top bar's loader may hand to handleLoadSettings
\* (hasBands = FALSE: no customBands field; mode = Null: no mode field).
SettingsInputs ==
  { [mode |-> "music", hasBands |-> FALSE, customBands |-> <<>>],
    [mode |-> Null, hasBands |-> TRUE,
     customBands |-> << Band(0, 5000, 150), Band(5000, 10000, Unity),
                        Band(10000, 15000, Unity), Band(15000, 24000, Unity) >>],
    [mode |-> "generic", hasBands |-> TRUE, customBands |-> << Band(0, 1000, 0) >>],
    \* a file written by hand: the range reversed, the gain above the slider's maximum
    [mode |-> Null, hasBands |-> TRUE, customBands |-> << Band(5000, 1000, 250) >>] }

\* handleAddBand(band); the top bar gets the callback in generic mode only.
HandleAddBand(band) ==
  /\ currentMode = "generic"
  /\ Len(customBands) < MaxBands
  /\ Gesture
  /\ SetCustomBands(Append(customBands, band))
  /\ UNCHANGED << currentMode, currentSubMode, uploadedAudioFile, inputAudioBuffer,
                  outputAudioBuffer, fftData, isLoadingAudio, isProcessingEqualizer >>
  /\ PanelRender(values, debounceTimer, liveTimeouts)
  /\ UNCHANGED << eqRequests, uploads, nMoves >>
  /\ alert' = "none"
  /\ last' = "handleAddBand"

\* handleRemoveBand(index), from the remove button of a generic-mode slider.
HandleRemoveBand(index) ==
  /\ PanelShown(isLoadingAudio, currentSubMode)
  /\ currentMode = "generic"
  /\ index \in 1..Len(customBands)
  /\ Gesture
  /\ SetCustomBands(RemoveAt(customBands, index))
  /\ UNCHANGED << currentMode, currentSubMode, uploadedAudioFile, inputAudioBuffer,
                  outputAudioBuffer, fftData, isLoadingAudio, isProcessingEqualizer >>
  /\ PanelRender(values, debounceTimer, liveTimeouts)
  /\ UNCHANGED << eqRequests, uploads, nMoves >>
  /\ alert' = "none"
  /\ last' = "handleRemoveBand"

\* handleLoadSettings(settings)
HandleLoadSettings(settings) ==
  /\ Gesture
  /\ currentMode' = IF settings.mode # Null THEN settings.mode ELSE currentMode
  /\ IF settings.hasBands
     THEN SetCustomBands(settings.customBands)
     ELSE UNCHANGED << customBands, localStorage >>
  /\ UNCHANGED << currentSubMode, uploadedAudioFile, inputAudioBuffer, outputAudioBuffer,
                  fftData, isLoadingAudio, isProcessingEqualizer >>
  /\ PanelRender(values, debounceTimer, liveTimeouts)
  /\ UNCHANGED << eqRequests, uploads, nMoves >>
  /\ alert' = "none"
  /\ last' = "handleLoadSettings"

\* handleModeChange(mode, subMode), from the sidebar.
HandleModeChange(mode, subMode) ==
  /\ << mode, subMode >> # << currentMode, currentSubMode >>
  /\ Gesture
  /\ currentMode' = mode
  /\ currentSubMode' = subMode
  /\ UNCHANGED << uploadedAudioFile, inputAudioBuffer, outputAudioBuffer, fftData,
                  isLoadingAudio, customBands, localStorage, isProcessingEqualizer >>
  /\ PanelRender(values, debounceTimer, liveTimeouts)
  /\ UNCHANGED << eqRequests, uploads, nMoves >>
  /\ alert' = "none"
  /\ last' = "handleModeChange"

\* -------------------------------------------------------- AudioSeparation
\* Audio samples are held in hundredths of full scale (100 = amplitude 1.0) and
\* arithmetic on them is exact.  A buffer is its list of channels, each a list
\* of samples; NoAudio is a null buffer.
VARIABLES
  stage, separatedTracks, progress, sepInputAudioBuffer, sepOutputAudioBuffer,
  \* props: uploadedFile and currentMode
  uploadedFile, sepCurrentMode,
  \* handleSeparate calls awaiting the backend; the mount's loadFile still decoding
  separations, decoding,
  \* an effect threw and the error boundary replaced the component
  crashed,
  \* observation
  sepAlert, sepLast, nSepActions

sepVars == << stage, separatedTracks, progress, sepInputAudioBuffer, sepOutputAudioBuffer,
              uploadedFile, sepCurrentMode, separations, decoding, crashed,
              sepAlert, sepLast, nSepActions >>

\* Gestures on the separation screen in a run.
MaxSepActions == 3

\* A sample read past the end of a channel: undefined, NaN once multiplied.
NaN == 999999
NoAudio == <<>>

Mono1 == << <<60, -40>> >>
Mono2 == << <<80, 20>> >>
Mono3 == << <<-20, 40>> >>
Short == << <<20>> >>
Stereo1 == << <<60, 0>>, <<0, 60>> >>
Stereo2 == << <<80, 20>>, <<-20, -80>> >>

\* decodeAudioData of the uploaded file.
FileAudio(f) == IF f = "a.wav" THEN << <<40, 40>> >> ELSE << <<20, -60>>, <<20, -60>> >>

\* What separateVoices and the loading of its files may deliver: the stems' audio.
VoiceStems ==
  { <<>>, << Mono1 >>, << Mono1, Mono2 >>, << Mono1, Mono2, Mono3 >>, << Stereo1, Stereo2 >>,
    << Mono1, Short >>, << Stereo1, Mono1 >> }
\* What separateInstruments may deliver for drums, bass, vocals, guitar, piano,
\* other: the audio of each file, NoAudio where result.files has no entry.
InstrumentStems ==
  { << Mono1, Mono2, Mono3, Mono1, Mono2, Mono3 >>,
    << Mono1, NoAudio, Mono3, Mono1, Mono2, Mono3 >> }
InstrumentIds == << "drums", "bass", "vocals", "guitar", "piano", "other" >>
VoiceIds == << "voice_0", "voice_1", "voice_2" >>
\* Values the per-stem gain control may hand to handleGainChange (hundredths).
TrackGainInputs == {0, 50, 200}
\* The modes the separation screen distinguishes: music, and any other (speech).
SepModes == {"music", "human"}
ProgressReports == {0, 50, 100}

separationType(mode) == IF mode = "music" THEN "music" ELSE "speech"

Track(id, audio) == [id |-> id, audioBuffer |-> audio, gain |-> Unity, muted |-> FALSE, solo |-> FALSE]

\* The tracks handleSeparate builds from the stems; input is the
\* inputAudioBuffer the handler closed over.
BuildTracks(type, stems, input) ==
  IF type = "music"
  THEN [k \in 1..Len(InstrumentIds) |->
          Track(InstrumentIds[k], IF stems[k] # NoAudio THEN stems[k] ELSE input)]
  ELSE [k \in 1..Len(stems) |-> Track(VoiceIds[k], stems[k])]

\* ---- the mixing effect
\* A different filter, which would also leave out a stem whose solo flag is set.
UnmutedUnsoloed(t) == ~t.muted /\ ~t.solo
\* separatedTracks.filter(t => !t.muted)
IsActive(t) == ~t.muted
ActiveTracks(tracks) == SelectSeq(tracks, IsActive)

\* const gain = track.gain || 1.0
TrackGain(track) == OrElse(track.gain, Unity)

\* channelData[i] * gain
Scaled(channel, i, gain) == IF i <= Len(channel) THEN (channel[i] * gain) \div Unity ELSE NaN

\* A different accumulation, which would clip the sum to full scale.
ClippedPlus(acc, x) == IF acc = NaN \/ x = NaN THEN NaN ELSE Max(-100, Min(100, acc + x))
\* outputData[i] += x
Plus(acc, x) == IF acc = NaN \/ x = NaN THEN NaN ELSE acc + x

\* outputData[i] after the first k active tracks have been accumulated.
RECURSIVE Accumulated(_, _, _, _)
Accumulated(active, ch, i, k) ==
  IF k = 0 THEN 0
  ELSE LET t == active[k]
           before == Accumulated(active, ch, i, k - 1)
       IN IF t.audioBuffer # NoAudio /\ ~t.muted
          THEN Plus(before, Scaled(t.audioBuffer[ch], i, TrackGain(t)))
          ELSE before

MixedBuffer(active) ==
  LET channels == Len(active[1].audioBuffer)
      length == Len(active[1].audioBuffer[1])
  IN [ch \in 1..channels |-> [i \in 1..length |-> Accumulated(active, ch, i, Len(active))]]

\* getChannelData(ch) throws for a track with fewer channels than the first.
MixThrows(active) ==
  \E k \in 1..Len(active) :
    /\ active[k].audioBuffer # NoAudio
    /\ Len(active[k].audioBuffer) < Len(active[1].audioBuffer)

\* A different effect, which would put out silence when no track is active.
SilenceWhenAllMuted(previous, tracks) ==
  IF tracks[1].audioBuffer = NoAudio THEN NoAudio
  ELSE [ch \in 1..Len(tracks[1].audioBuffer) |-> [i \in 1..Len(tracks[1].audioBuffer[1]) |-> 0]]
\* What the effect does when no track is active: it returns.
OutputWhenAllMuted(previous, tracks) == previous

\* Whether the [separatedTracks, stage] effect gets as far as mixing.
Mixes(tracks, stg) ==
  /\ stg = "separated" /\ Len(tracks) > 0
  /\ Len(ActiveTracks(tracks)) > 0
  /\ ActiveTracks(tracks)[1].audioBuffer # NoAudio

\* The effect, run after a render in which separatedTracks or stage changed.
MixEffect(tracks, stg) ==
  IF Mixes(tracks, stg)
  THEN IF MixThrows(ActiveTracks(tracks))
       THEN crashed' = TRUE /\ UNCHANGED sepOutputAudioBuffer
       ELSE crashed' = crashed /\ sepOutputAudioBuffer' = MixedBuffer(ActiveTracks(tracks))
  ELSE /\ crashed' = crashed
       /\ sepOutputAudioBuffer' =
            IF stg = "separated" /\ Len(tracks) > 0 /\ Len(ActiveTracks(tracks)) = 0
            THEN OutputWhenAllMuted(sepOutputAudioBuffer, tracks)
            ELSE sepOutputAudioBuffer

\* A different effect, which would accumulate into the buffer of the first
\* active track instead of a new one.
MixedIntoFirstTrack(tracks, stg) ==
  IF Mixes(tracks, stg) /\ ~MixThrows(ActiveTracks(tracks))
  THEN LET first == CHOOSE k \in DOMAIN tracks : IsActive(tracks[k]) /\ \A j \in 1..(k - 1) : ~IsActive(tracks[j])
       IN [tracks EXCEPT ![first].audioBuffer = MixedBuffer(ActiveTracks(tracks))]
  ELSE tracks
\* The tracks as the effect leaves them: it writes into outputData, a channel of
\* the buffer createBuffer returned, and only reads the tracks' channelData.
TracksAfterMix(tracks, stg) == tracks

SepGesture == ~crashed /\ nSepActions < MaxSepActions /\ nSepActions' = nSepActions + 1

\* The component right after mounting with the given props.
Mounted(file, mode) ==
  /\ stage = "initial"
  /\ separatedTracks = <<>>
  /\ progress = 0
  /\ sepInputAudioBuffer = NoAudio
  /\ sepOutputAudioBuffer = NoAudio
  /\ uploadedFile = file
  /\ sepCurrentMode = mode
  /\ separations = <<>>
  /\ decoding = (file # Null)
  /\ crashed = FALSE

SepInit ==
  /\ \E file \in Files \cup {Null}, mode \in SepModes : Mounted(file, mode)
  /\ sepAlert = "none"
  /\ sepLast = "init"
  /\ nSepActions = 0

\* The App before the separation screen has been opened.
SepIdle ==
  /\ Mounted(Null, "generic")
  /\ sepAlert = "none"
  /\ sepLast = "init"
  /\ nSepActions = 0

\* loadFile of the uploaded-file effect settles.
DecodeDone(ok) ==
  /\ ~crashed /\ decoding
  /\ decoding' = FALSE
  /\ IF ok
     THEN /\ sepInputAudioBuffer' = FileAudio(uploadedFile)
          /\ stage' = "initial"
          /\ sepAlert' = "none"
          /\ sepLast' = "DecodeDone"
     ELSE /\ UNCHANGED << sepInputAudioBuffer, stage >>
          /\ sepAlert' = "Failed to load audio file"
          /\ sepLast' = "DecodeFailed"
  /\ IF stage' # stage
     THEN MixEffect(separatedTracks, stage')
     ELSE UNCHANGED << sepOutputAudioBuffer, crashed >>
  /\ UNCHANGED << separatedTracks, progress, uploadedFile, sepCurrentMode, separations, nSepActions >>

\* handleSeparate up to its first await; the button is rendered in stage
\* 'initial' with a file uploaded.
HandleSeparate ==
  /\ stage = "initial" /\ uploadedFile # Null
  /\ SepGesture
  /\ stage' = "separating"
  /\ progress' = 10
  /\ separations' = Append(separations, [type |-> separationType(sepCurrentMode),
                                         inputAudioBuffer |-> sepInputAudioBuffer,
                                         tracksBefore |-> separatedTracks,
                                         outputBefore |-> sepOutputAudioBuffer])
  /\ MixEffect(separatedTracks, stage')
  /\ UNCHANGED << separatedTracks, sepInputAudioBuffer, uploadedFile, sepCurrentMode, decoding >>
  /\ sepAlert' = "none"
  /\ sepLast' = "handleSeparate"

\* onProgress(progressData) during separation i, the report given in percent.
OnProgress(i, percent) ==
  /\ ~crashed
  /\ i \in 1..Len(separations)
  /\ progress' = percent
  /\ UNCHANGED << stage, separatedTracks, sepInputAudioBuffer, sepOutputAudioBuffer, uploadedFile,
                  sepCurrentMode, separations, decoding, crashed, nSepActions >>
  /\ sepAlert' = "none"
  /\ sepLast' = "onProgress"

\* A different catch block, which would leave the progress bar where it stood.
ProgressLeft(previous) == previous
\* The catch block of handleSeparate: setProgress(0).
ProgressAfterFailure(previous) == 0

\* Separation i fails: the backend call or the loading of one of its stems.
SeparateFailed(i) ==
  /\ ~crashed
  /\ i \in 1..Len(separations)
  /\ stage' = "initial"
  /\ progress' = ProgressAfterFailure(progress)
  /\ separations' = RemoveAt(separations, i)
  /\ IF stage' # stage
     THEN MixEffect(separatedTracks, stage')
     ELSE UNCHANGED << sepOutputAudioBuffer, crashed >>
  /\ UNCHANGED << separatedTracks, sepInputAudioBuffer, uploadedFile, sepCurrentMode, decoding,
                  nSepActions >>
  /\ sepAlert' = "Failed to separate audio"
  /\ sepLast' = "SeparateFailed"

\* Separation i succeeds: the backend answered and every stem was loaded.
SeparateDone(i, stems) ==
  /\ ~crashed
  /\ i \in 1..Len(separations)
  /\ stems \in (IF separations[i].type = "music" THEN InstrumentStems ELSE VoiceStems)
  /\ progress' = 100
  /\ stage' = "separated"
  /\ separations' = RemoveAt(separations, i)
  /\ LET tracks == BuildTracks(separations[i].type, stems, separations[i].inputAudioBuffer)
     IN /\ separatedTracks' = TracksAfterMix(tracks, stage')
        /\ MixEffect(tracks, stage')
  /\ UNCHANGED << sepInputAudioBuffer, uploadedFile, sepCurrentMode, decoding, nSepActions >>
  /\ sepAlert' = "none"
  /\ sepLast' = "SeparateDone"

\* The per-stem controls exist in stage 'separated' only.
TrackControl(k, track) ==
  /\ stage = "separated"
  /\ k \in 1..Len(separatedTracks)
  /\ SepGesture
  /\ LET tracks == [separatedTracks EXCEPT ![k] = track]
     IN /\ separatedTracks' = TracksAfterMix(tracks, stage)
        /\ MixEffect(tracks, stage)
  /\ UNCHANGED << stage, progress, sepInputAudioBuffer, uploadedFile, sepCurrentMode, separations,
                  decoding >>
  /\ sepAlert' = "none"

HandleGainChange(k, newGain) ==
  /\ k \in 1..Len(separatedTracks)
  /\ TrackControl(k, [separatedTracks[k] EXCEPT !.gain = newGain])
  /\ sepLast' = "handleGainChange"

HandleMuteToggle(k) ==
  /\ k \in 1..Len(separatedTracks)
  /\ TrackControl(k, [separatedTracks[k] EXCEPT !.muted = ~separatedTracks[k].muted])
  /\ sepLast' = "handleMuteToggle"

HandleSoloToggle(k) ==
  /\ k \in 1..Len(separatedTracks)
  /\ TrackControl(k, [separatedTracks[k] EXCEPT !.solo = ~separatedTracks[k].solo])
  /\ sepLast' = "handleSoloToggle"

\* The App's currentMode changes while the separation screen stays up.
SepModeChange(mode) ==
  /\ mode # sepCurrentMode
  /\ SepGesture
  /\ sepCurrentMode' = mode
  /\ UNCHANGED << stage, separatedTracks, progress, sepInputAudioBuffer, sepOutputAudioBuffer,
                  uploadedFile, separations, decoding, crashed >>
  /\ sepAlert' = "none"
  /\ sepLast' = "modeChange"

\* The App takes the screen down and puts it up again (an upload, or leaving
\* and re-entering the AI sub-mode): a new instance; what the old one awaited
\* settles into nothing.
Remount(file, mode) ==
  /\ nSepActions < MaxSepActions /\ nSepActions' = nSepActions + 1
  /\ file # Null \/ uploadedFile = Null
  /\ stage' = "initial"
  /\ separatedTracks' = <<>>
  /\ progress' = 0
  /\ sepInputAudioBuffer' = NoAudio
  /\ sepOutputAudioBuffer' = NoAudio
  /\ uploadedFile' = file
  /\ sepCurrentMode' = mode
  /\ separations' = <<>>
  /\ decoding' = (file # Null)
  /\ crashed' = FALSE
  /\ sepAlert' = "none"
  /\ sepLast' = "mount"

\* --------------------------------------------------- FourierTransform views
\* FourierTransform.jsx holds two components of that name: one that computes
\* the spectra of the audio buffers it is given (the audio-buffer view) and one
\* that draws the FFT the backend returned (the backend view).  Frequencies are
\* kept as exact fractions; the rounding of Float32Array is left out.
\* Magnitudes are kept as integers that grow with them (see PowerTwice and
\* convertBackendFFTToSpectrum): zero stays zero and the order is unchanged.
VARIABLES
  \* audio-buffer view: prop and state (fftData, outputFftData)
  scaleType, viewFftData, viewOutputFftData,
  \* backend view: prop and state
  backendScaleType, inputFftData, backendOutputFftData,
  \* what the latest drawSpectrum of each view put on its canvas
  canvas, backendCanvas,
  \* observation
  ftLast

ftVars == << scaleType, viewFftData, viewOutputFftData, backendScaleType, inputFftData,
             backendOutputFftData, canvas, backendCanvas, ftLast >>

\* A prop, a state or a field that may be null or undefined: Absent, or Present
\* with its value.
Absent == <<>>
Present(x) == << x >>
ValueOf(o) == o[1]

Rat(n, d) == [num |-> n, den |-> d]
LessThan(a, b) == a.num * b.den < b.num * a.den

RECURSIVE Sum(_)
Sum(s) == IF s = <<>> THEN 0 ELSE Head(s) + Sum(Tail(s))

\* Math.max of no arguments.
NegInfinity == -999999

ScaleTypes == {"linear", "audiogram"}
\* fftSize values for which cos and sin of every bin angle are rational.
FftSizes == {1, 2, 3, 4, 6}
AudioBuffers ==
  { [sampleRate |-> 44100, channelData |-> <<0, 0, 0, 0>>],
    [sampleRate |-> 44100, channelData |-> <<1, 0, -1, 0, 1, 0>>],
    [sampleRate |-> 8000, channelData |-> <<1, 1>>] }
AudioProps == {Absent} \cup {Present(b) : b \in AudioBuffers}

\* Array.prototype.slice(start, end).
SliceIndex(len, i) == IF i < 0 THEN Max(len + i, 0) ELSE Min(i, len)
Slice(s, start, end) ==
  LET from == SliceIndex(Len(s), start)
      to == SliceIndex(Len(s), end)
  IN IF from < to THEN SubSeq(s, from + 1, to) ELSE <<>>

\* new Float32Array(n): the length is n truncated to an integer.
ArrayLength(n) == n.num \div n.den
\* for (let i = 0; i < n; i++) array[i] = f(i): a write past the end of a typed
\* array is ignored, an element never written stays 0.
LoopRuns(i, n) == i * n.den < n.num
Filled(n, f) == [j \in 1..ArrayLength(n) |-> IF LoopRuns(j - 1, n) THEN f[j - 1] ELSE 0]

\* const bufferLength = fftSize / 2
HalfOf(fftSize) == Rat(fftSize, 2)

\* 2 * cos(2 * PI * j / fftSize), an integer for the sizes of FftSizes.
TwoCos(j, fftSize) ==
  LET twelfths == ((12 \div fftSize) * j) % 12
  IN CASE twelfths = 0 -> 2
       [] twelfths \in {2, 10} -> 1
       [] twelfths \in {3, 9} -> 0
       [] twelfths \in {4, 8} -> -1
       [] twelfths = 6 -> -2

\* real * real + imag * imag of bin k, doubled: the sum over n and m of
\* x[n] * x[m] * 2 * cos(2 * PI * k * (n - m) / fftSize).  The magnitude is its
\* square root over fftSize * sqrt(2).
PowerTwice(analysisData, k, fftSize) ==
  LET count == Min(fftSize, Len(analysisData))
  IN Sum([n \in 1..count |->
            Sum([m \in 1..count |->
                   analysisData[n] * analysisData[m] * TwoCos(k * (n - m), fftSize)])])

generateFFTData(audioBuffer, fftSize) ==
  LET channelData == audioBuffer.channelData
      sampleRate == audioBuffer.sampleRate
      bufferLength == HalfOf(fftSize)
      startSample == (Len(channelData) - fftSize) \div 2
      analysisData == Slice(channelData, startSample, startSample + fftSize)
  IN [ frequencies |-> Filled(bufferLength, [i \in 0..fftSize |-> Rat(i * sampleRate, fftSize)]),
       magnitudes |-> Filled(bufferLength, [k \in 0..fftSize |-> PowerTwice(analysisData, k, fftSize)]),
       sampleRate |-> sampleRate,
       fftSize |-> fftSize,
       bufferLength |-> bufferLength ]

\* The backend view's conversion; magnitudes are kept as real^2 + imag^2, and
\* an element read past the end of fftReal or fftImag makes the magnitude NaN.
convertBackendFFTToSpectrum(fftReal, fftImag, sampleRate, fftSize) ==
  LET bufferLength == Rat(fftSize \div 2, 1)
  IN [ frequencies |-> Filled(bufferLength, [i \in 0..fftSize |-> Rat(i * sampleRate, fftSize)]),
       magnitudes |-> Filled(bufferLength,
                             [i \in 0..fftSize |->
                                IF i + 1 > Len(fftReal) \/ i + 1 > Len(fftImag) THEN NaN
                                ELSE fftReal[i + 1] * fftReal[i + 1] + fftImag[i + 1] * fftImag[i + 1]]),
       sampleRate |-> sampleRate,
       fftSize |-> fftSize,
       bufferLength |-> bufferLength ]

\* What the App may hand the backend view as backendFFTData.
BackendFFTInputs ==
  { [originalFftReal |-> Present(<<0, 0, 0, 0>>), originalFftImag |-> Present(<<0, 0, 0, 0>>),
     fftReal |-> Present(<<0, 0, 0, 0>>), fftImag |-> Present(<<0, 0, 0, 0>>), sampleRate |-> 44100, fftSize |-> 4],
    [originalFftReal |-> Present(<<3, 1, 0, 2, 0, 1>>), originalFftImag |-> Present(<<0, 1, 0, 0, 0, -1>>),
     fftReal |-> Present(<<3, 2, 0, 1, 0, 2>>), fftImag |-> Present(<<0, 2, 0, 0, 0, -2>>), sampleRate |-> 44100, fftSize |-> 6],
    [originalFftReal |-> Absent, originalFftImag |-> Absent,
     fftReal |-> Present(<<1, 2, 0, 2, 1>>), fftImag |-> Present(<<0, 1, 0, -1, 0>>), sampleRate |-> 8000, fftSize |-> 5],
    [originalFftReal |-> Absent, originalFftImag |-> Absent,
     fftReal |-> Present(<<0, 0>>), fftImag |-> Present(<<0, 0>>), sampleRate |-> 8000, fftSize |-> 2],
    [originalFftReal |-> Present(<<1, 1>>), originalFftImag |-> Present(<<0, 0>>),
     fftReal |-> Absent, fftImag |-> Absent, sampleRate |-> 8000, fftSize |-> 2] }
BackendProps == {Absent} \cup {Present(d) : d \in BackendFFTInputs}

AudiogramLow == 125
AudiogramHigh == 8000

\* m / maxMag as the fraction itself: 0 / 0 is what JavaScript calls NaN (no
\* magnitude exceeds the maximum, so the dividend is 0 whenever the divisor is).
NaNRatio == Rat(0, 0)
Divide(m, maxMag) == IF m = NaN THEN NaNRatio ELSE Rat(m, maxMag)
\* Math.min(1, value), value never negative; NaN stays NaN.
MinOne(value) == IF value.den = 0 THEN NaNRatio ELSE IF value.num > value.den THEN Rat(1, 1) ELSE value

Point(i, freq, value) == [index |-> i, freq |-> freq, value |-> MinOne(value)]
Points(freqs, norm) == [i \in 1..Len(norm) |-> Point(i - 1, freqs[i], norm[i])]

\* Audio-buffer view: if (freq < 125) continue.
SkipsBelow(type, freq) == type = "audiogram" /\ LessThan(freq, Rat(AudiogramLow, 1))
\* Backend view: if (freq < 125 || freq > 8000) continue.
SkipsOutside(type, freq) ==
  type = "audiogram" /\ (LessThan(freq, Rat(AudiogramLow, 1)) \/ LessThan(Rat(AudiogramHigh, 1), freq))

\* The points a drawing loop hands to moveTo / lineTo.
Trace(type, freqs, norm) == SelectSeq(Points(freqs, norm), LAMBDA p : ~SkipsBelow(type, p.freq))
BackendTrace(type, freqs, norm) == SelectSeq(Points(freqs, norm), LAMBDA p : ~SkipsOutside(type, p.freq))

Blank == [message |-> FALSE, warned |-> FALSE, dividedByZero |-> FALSE, input |-> <<>>, output |-> <<>>]
NoDataMessage == [Blank EXCEPT !.message = TRUE]

\* Math.max(...values).
MathMax(numbers) ==
  IF numbers = <<>> THEN NegInfinity
  ELSE CHOOSE m \in {numbers[i] : i \in DOMAIN numbers} : \A i \in DOMAIN numbers : numbers[i] <= m

\* The audio-buffer view's drawSpectrum.
drawSpectrum(type, input, output) ==
  IF input = Absent THEN NoDataMessage
  ELSE LET inputMags == ValueOf(input).magnitudes
           outputMags == IF output = Absent THEN <<>> ELSE ValueOf(output).magnitudes
           maxMag == MathMax(inputMags \o outputMags)
           normInput == [i \in DOMAIN inputMags |-> Divide(inputMags[i], maxMag)]
           normOutput == [i \in DOMAIN outputMags |-> Divide(outputMags[i], maxMag)]
       IN [ message |-> FALSE,
            warned |-> FALSE,
            dividedByZero |-> maxMag = 0,
            input |-> Trace(type, ValueOf(input).frequencies, normInput),
            output |-> IF output = Absent THEN <<>> ELSE Trace(type, ValueOf(output).frequencies, normOutput) ]

\* Backend view: if (maxMag === 0) { console.warn(...); return; }
AllZero(maxMag) == maxMag = 0

\* let maxMag = 0; ... if (mags[i] > maxMag) maxMag = mags[i]  (NaN compares false)
RECURSIVE LoopMax(_, _)
LoopMax(maxMag, mags) ==
  IF mags = <<>> THEN maxMag
  ELSE LoopMax(IF Head(mags) # NaN /\ Head(mags) > maxMag THEN Head(mags) ELSE maxMag, Tail(mags))

\* The backend view's drawSpectrum.
drawBackendSpectrum(type, input, output) ==
  IF output = Absent THEN NoDataMessage
  ELSE LET outputMags == ValueOf(output).magnitudes
           inputMags == IF input = Absent THEN <<>> ELSE ValueOf(input).magnitudes
           maxMag == LoopMax(LoopMax(0, outputMags), inputMags)
           normInput == [i \in DOMAIN inputMags |-> Divide(inputMags[i], maxMag)]
           normOutput == [i \in DOMAIN outputMags |-> Divide(outputMags[i], maxMag)]
       IN IF AllZero(maxMag) THEN [Blank EXCEPT !.warned = TRUE]
          ELSE [ message |-> FALSE,
                 warned |-> FALSE,
                 dividedByZero |-> maxMag = 0,
                 input |-> IF input = Absent THEN <<>> ELSE BackendTrace(type, ValueOf(input).frequencies, normInput),
                 output |-> BackendTrace(type, ValueOf(output).frequencies, normOutput) ]

FtInit ==
  /\ scaleType = "linear"
  /\ viewFftData = Absent
  /\ viewOutputFftData = Absent
  /\ backendScaleType = "linear"
  /\ inputFftData = Absent
  /\ backendOutputFftData = Absent
  /\ canvas = drawSpectrum("linear", Absent, Absent)
  /\ backendCanvas = drawBackendSpectrum("linear", Absent, Absent)
  /\ ftLast = "init"

backendVars == << backendScaleType, inputFftData, backendOutputFftData, backendCanvas >>
audioViewVars == << scaleType, viewFftData, viewOutputFftData, canvas >>

\* useEffect [audioBuffer]: the input buffer prop changed; the view passes
\* fftSize 2048, the model a size it can enumerate.
AudioBufferChanged(audioBuffer, fftSize) ==
  /\ viewFftData' = IF audioBuffer # Absent THEN Present(generateFFTData(ValueOf(audioBuffer), fftSize)) ELSE Absent
  /\ canvas' = drawSpectrum(scaleType, viewFftData', viewOutputFftData)
  /\ UNCHANGED << scaleType, viewOutputFftData, backendVars >>
  /\ ftLast' = "audioBuffer"

\* useEffect [outputAudioBuffer].
OutputAudioBufferChanged(audioBuffer, fftSize) ==
  /\ viewOutputFftData' = IF audioBuffer # Absent THEN Present(generateFFTData(ValueOf(audioBuffer), fftSize)) ELSE Absent
  /\ canvas' = drawSpectrum(scaleType, viewFftData, viewOutputFftData')
  /\ UNCHANGED << scaleType, viewFftData, backendVars >>
  /\ ftLast' = "outputAudioBuffer"

\* The scaleType prop of the audio-buffer view changed: the drawing effect runs.
ScaleTypeChanged(type) ==
  /\ type # scaleType
  /\ scaleType' = type
  /\ canvas' = drawSpectrum(type, viewFftData, viewOutputFftData)
  /\ UNCHANGED << viewFftData, viewOutputFftData, backendVars >>
  /\ ftLast' = "scaleType"

\* useEffect [backendFFTData] of the backend view, then its drawing effect.
BackendFFTDataChanged(backendFFTData) ==
  /\ IF backendFFTData = Absent
     THEN inputFftData' = Absent /\ backendOutputFftData' = Absent
     ELSE LET data == ValueOf(backendFFTData)
          IN IF data.fftReal = Absent \/ data.fftImag = Absent
             THEN UNCHANGED << inputFftData, backendOutputFftData >>
             ELSE /\ inputFftData' =
                       IF data.originalFftReal # Absent /\ data.originalFftImag # Absent
                       THEN Present(convertBackendFFTToSpectrum(ValueOf(data.originalFftReal),
                                                                ValueOf(data.originalFftImag),
                                                                data.sampleRate, data.fftSize))
                       ELSE Absent
                  /\ backendOutputFftData' =
                       Present(convertBackendFFTToSpectrum(ValueOf(data.fftReal), ValueOf(data.fftImag),
                                                           data.sampleRate, data.fftSize))
  /\ backendCanvas' = drawBackendSpectrum(backendScaleType, inputFftData', backendOutputFftData')
  /\ UNCHANGED << backendScaleType, audioViewVars >>
  /\ ftLast' = "backendFFTData"

BackendScaleTypeChanged(type) ==
  /\ type # backendScaleType
  /\ backendScaleType' = type
  /\ backendCanvas' = drawBackendSpectrum(type, inputFftData, backendOutputFftData)
  /\ UNCHANGED << inputFftData, backendOutputFftData, audioViewVars >>
  /\ ftLast' = "backendScaleType"

\* ----------------------------------------------------------- specification
vars == << eqVars, sepVars, ftVars >>

Init == EqInit /\ SepIdle /\ FtInit

Next ==
  \/ UNCHANGED << sepVars, ftVars >> /\ \E index \in DOMAIN values, newValue \in SliderInputs : HandleSliderChange(index, newValue)
  \/ UNCHANGED << sepVars, ftVars >> /\ HandleReset
  \/ UNCHANGED << sepVars, ftVars >> /\ TimerFire
  \/ UNCHANGED << sepVars, ftVars >> /\ \E i \in DOMAIN eqRequests, outcome \in {"reject", "url", "noUrl"} : EqRespond(i, outcome)
  \/ UNCHANGED << sepVars, ftVars >> /\ \E i \in DOMAIN eqRequests, ok \in BOOLEAN : EqLoad(i, ok)
  \/ UNCHANGED << sepVars, ftVars >> /\ \E file \in Files, decoded \in BOOLEAN : HandleAudioUpload(file, decoded)
  \/ UNCHANGED << sepVars, ftVars >> /\ \E i \in DOMAIN uploads, ok \in BOOLEAN : UploadRespond(i, ok)
  \/ UNCHANGED << sepVars, ftVars >> /\ \E i \in DOMAIN uploads : UploadFinish(i)
  \/ UNCHANGED << sepVars, ftVars >> /\ \E band \in BandInputs : HandleAddBand(band)
  \/ UNCHANGED << sepVars, ftVars >> /\ \E index \in DOMAIN customBands : HandleRemoveBand(index)
  \/ UNCHANGED << sepVars, ftVars >> /\ \E settings \in SettingsInputs : HandleLoadSettings(settings)
  \/ UNCHANGED << sepVars, ftVars >> /\ \E mode \in Modes, subMode \in SubModes : HandleModeChange(mode, subMode)

Spec == Init /\ [][Next]_vars

\* The separation screen on its own, from the moment it is mounted.
InitSep == EqInit /\ SepInit /\ FtInit

NextSep ==
  \/ UNCHANGED << eqVars, ftVars >> /\ \E ok \in BOOLEAN : DecodeDone(ok)
  \/ UNCHANGED << eqVars, ftVars >> /\ HandleSeparate
  \/ UNCHANGED << eqVars, ftVars >> /\ \E i \in DOMAIN separations, percent \in ProgressReports : OnProgress(i, percent)
  \/ UNCHANGED << eqVars, ftVars >> /\ \E i \in DOMAIN separations : SeparateFailed(i)
  \/ UNCHANGED << eqVars, ftVars >> /\ \E i \in DOMAIN separations, stems \in VoiceStems \cup InstrumentStems : SeparateDone(i, stems)
  \/ UNCHANGED << eqVars, ftVars >> /\ \E k \in DOMAIN separatedTracks, newGain \in TrackGainInputs : HandleGainChange(k, newGain)
  \/ UNCHANGED << eqVars, ftVars >> /\ \E k \in DOMAIN separatedTracks : HandleMuteToggle(k)
  \/ UNCHANGED << eqVars, ftVars >> /\ \E k \in DOMAIN separatedTracks : HandleSoloToggle(k)
  \/ UNCHANGED << eqVars, ftVars >> /\ \E mode \in SepModes : SepModeChange(mode)
  \/ UNCHANGED << eqVars, ftVars >> /\ \E file \in Files \cup {Null}, mode \in SepModes : Remount(file, mode)

SpecSep == InitSep /\ [][NextSep]_vars

\* The two screens together: the App with its control panel and a mounted
\* separation screen, their steps interleaved.
\* Gestures on both screens together in such a run.
MaxJoint == 3
JointBudget == nActions' + nSepActions' <= MaxJoint

\* The separation screen opened on a file.
SepOpened ==
  /\ \E mode \in SepModes : Mounted("a.wav", mode)
  /\ sepAlert = "none"
  /\ sepLast = "init"
  /\ nSepActions = 0

InitAll == EqInit /\ SepOpened /\ FtInit

NextAll ==
  \/ UNCHANGED << sepVars, ftVars >> /\ (\E index \in DOMAIN values, newValue \in SliderInputs : HandleSliderChange(index, newValue)) /\ JointBudget
  \/ UNCHANGED << sepVars, ftVars >> /\ HandleReset /\ JointBudget
  \/ UNCHANGED << sepVars, ftVars >> /\ TimerFire
  \/ UNCHANGED << sepVars, ftVars >> /\ \E i \in DOMAIN eqRequests, outcome \in {"reject", "url", "noUrl"} : EqRespond(i, outcome)
  \/ UNCHANGED << sepVars, ftVars >> /\ \E i \in DOMAIN eqRequests, ok \in BOOLEAN : EqLoad(i, ok)
  \/ UNCHANGED << sepVars, ftVars >> /\ (\E file \in Files, decoded \in BOOLEAN : HandleAudioUpload(file, decoded)) /\ JointBudget
  \/ UNCHANGED << sepVars, ftVars >> /\ \E i \in DOMAIN uploads, ok \in BOOLEAN : UploadRespond(i, ok)
  \/ UNCHANGED << sepVars, ftVars >> /\ \E i \in DOMAIN uploads : UploadFinish(i)
  \/ UNCHANGED << sepVars, ftVars >> /\ (\E band \in BandInputs : HandleAddBand(band)) /\ JointBudget
  \/ UNCHANGED << sepVars, ftVars >> /\ (\E index \in DOMAIN customBands : HandleRemoveBand(index)) /\ JointBudget
  \/ UNCHANGED << sepVars, ftVars >> /\ (\E settings \in SettingsInputs : HandleLoadSettings(settings)) /\ JointBudget
  \/ UNCHANGED << sepVars, ftVars >> /\ (\E mode \in Modes, subMode \in SubModes : HandleModeChange(mode, subMode)) /\ JointBudget
  \/ UNCHANGED << eqVars, ftVars >> /\ \E ok \in BOOLEAN : DecodeDone(ok)
  \/ UNCHANGED << eqVars, ftVars >> /\ HandleSeparate /\ JointBudget
  \/ UNCHANGED << eqVars, ftVars >> /\ \E i \in DOMAIN separations, percent \in ProgressReports : OnProgress(i, percent)
  \/ UNCHANGED << eqVars, ftVars >> /\ \E i \in DOMAIN separations : SeparateFailed(i)
  \/ UNCHANGED << eqVars, ftVars >> /\ \E i \in DOMAIN separations, stems \in VoiceStems \cup InstrumentStems : SeparateDone(i, stems)
  \/ UNCHANGED << eqVars, ftVars >> /\ (\E k \in DOMAIN separatedTracks, newGain \in TrackGainInputs : HandleGainChange(k, newGain)) /\ JointBudget
  \/ UNCHANGED << eqVars, ftVars >> /\ (\E k \in DOMAIN separatedTracks : HandleMuteToggle(k)) /\ JointBudget
  \/ UNCHANGED << eqVars, ftVars >> /\ (\E k \in DOMAIN separatedTracks : HandleSoloToggle(k)) /\ JointBudget
  \/ UNCHANGED << eqVars, ftVars >> /\ (\E mode \in SepModes : SepModeChange(mode)) /\ JointBudget
  \/ UNCHANGED << eqVars, ftVars >> /\ (\E file \in Files \cup {Null}, mode \in SepModes : Remount(file, mode)) /\ JointBudget

SpecAll == InitAll /\ [][NextAll]_vars

\* The two spectrum views on their own, driven by their props.
InitFT == EqInit /\ SepIdle /\ FtInit

NextFT ==
  \/ UNCHANGED << eqVars, sepVars >> /\ \E audioBuffer \in AudioProps, fftSize \in FftSizes : AudioBufferChanged(audioBuffer, fftSize)
  \/ UNCHANGED << eqVars, sepVars >> /\ \E audioBuffer \in AudioProps, fftSize \in FftSizes : OutputAudioBufferChanged(audioBuffer, fftSize)
  \/ UNCHANGED << eqVars, sepVars >> /\ \E type \in ScaleTypes : ScaleTypeChanged(type)
  \/ UNCHANGED << eqVars, sepVars >> /\ \E backendFFTData \in BackendProps : BackendFFTDataChanged(backendFFTData)
  \/ UNCHANGED << eqVars, sepVars >> /\ \E type \in ScaleTypes : BackendScaleTypeChanged(type)

SpecFT == InitFT /\ [][NextFT]_vars

\* The backend and the 100 ms pause of an upload answer: a request that is
\* awaited is eventually settled, one way or the other.
BackendAnswers ==
  /\ UNCHANGED << sepVars, ftVars >>
  /\ \/ \E i \in DOMAIN eqRequests, outcome \in {"reject", "url", "noUrl"} : EqRespond(i, outcome)
     \/ \E i \in DOMAIN eqRequests, ok \in BOOLEAN : EqLoad(i, ok)
     \/ \E i \in DOMAIN uploads, ok \in BOOLEAN : UploadRespond(i, ok)
     \/ \E i \in DOMAIN uploads : UploadFinish(i)

\* The App and its panel with a backend that eventually answers.
SpecLive == Init /\ [][Next]_vars /\ WF_vars(BackendAnswers)

\* ------------------------------------------------------------------ claims
Gains(bands) == [i \in 1..Len(bands) |-> bands[i].gain]
AllUnity(gains) == \A i \in 1..Len(gains) : gains[i] = Unity
TimerFired == {"TimerFireError", "TimerFireSkipped", "TimerFireCalled"}
EqSettled == {"EqRequestFailed", "EqCompletedNoUrl", "EqResponded", "EqCompleted", "EqLoadFailed"}
FourDefaultBands ==
  << Band(0, 5000, Unity), Band(5000, 10000, Unity),
     Band(10000, 15000, Unity), Band(15000, 24000, Unity) >>

C2_SingleFlight ==
  [][ /\ Len(eqRequests') <= 1
      /\ eqRequests # <<>> =>
           \/ eqRequests' = <<>>
           \/ eqRequests' = eqRequests
           \/ eqRequests' = [eqRequests EXCEPT ![1].phase = "loadAudioFile"]
    ]_eqVars

\* C2 witness: a timer expired while a request was in flight and was dropped.
C2_Witness ==
  /\ last = "TimerFireSkipped"
  /\ Len(eqRequests) = 1

\* C3, as claimed: when a re-equalize request settles after another file has
\* been uploaded, fftData and outputAudioBuffer are left as they were.
C3_SupersededIgnored ==
  [][ (Len(eqRequests) = 1 /\ last' \in EqSettled /\ eqRequests[1].file # uploadedAudioFile)
        => (fftData' = fftData /\ outputAudioBuffer' = outputAudioBuffer)
    ]_eqVars

\* C4, as claimed: when a re-equalize attempt fails (the request, or the loading
\* of the output audio) an alert is shown and fftData and outputAudioBuffer have
\* the values they had when the attempt began.
C4_FailureRestores ==
  [][ (Len(eqRequests) = 1 /\ last' \in {"EqRequestFailed", "EqLoadFailed"})
        => /\ alert' # "none"
           /\ fftData' = eqRequests[1].fftBefore
           /\ outputAudioBuffer' = eqRequests[1].outputBefore
    ]_eqVars

\* C5, as claimed: after a response without outputAudioUrl the output buffer
\* is the current input buffer.
C5_NoUrlResetsToInput ==
  last = "EqCompletedNoUrl" => outputAudioBuffer = inputAudioBuffer

\* C6: after handleReset the band list is the four default bands at gain 1.0,
\* every slider value is 1.0 and the stored entry is that list.
C6_ResetRestoresDefaults ==
  last = "handleReset" =>
    /\ customBands = FourDefaultBands
    /\ Len(values) = Len(Labels(currentMode, customBands))
    /\ AllUnity(values)
    /\ localStorage.present
    /\ localStorage.text = JSONStringify(FourDefaultBands)
    /\ JSONParse(localStorage.text) = FourDefaultBands

\* C6 witness: a reset right after a slider movement in generic mode, which
\* had put a gain other than 1.0 into the band list.
C6_Witness ==
  /\ last = "handleReset"
  /\ nActions = 2 /\ nMoves = 1
  /\ currentMode = "generic"

\* C7: right after handleAudioUpload has been called with a decoded buffer every
\* band of customBands has gain 1.0; and when the upload ends (the backend
\* request having succeeded or failed) and the panel is shown again over a band
\* list left as the upload set it, every slider value is 1.0.
C7_UploadResetsGains ==
  [][ /\ last' = "UploadStarted" => AllUnity(Gains(customBands'))
      /\ (last' \in {"UploadFinished", "UploadFailed"}
            /\ ~PanelShown(isLoadingAudio, currentSubMode)
            /\ PanelShown(isLoadingAudio', currentSubMode')
            /\ AllUnity(Gains(customBands')))
           => (AllUnity(values') /\ Len(values') = Len(Labels(currentMode', customBands')))
    ]_eqVars

\* C7 witness: a slider was moved in generic mode, then a file was uploaded, the
\* backend request failed, and the panel is back with every value at 1.0.
C7_Witness ==
  /\ last = "UploadFailed"
  /\ nActions = 2 /\ nMoves = 1
  /\ currentMode = "generic"
  /\ PanelShown(isLoadingAudio, currentSubMode)
  /\ AllUnity(values) /\ AllUnity(Gains(customBands))


\* The stems all have audio, of one channel count and one length.
EqualShape(tracks) ==
  \A k \in 1..Len(tracks) :
    /\ tracks[k].audioBuffer # NoAudio
    /\ Len(tracks[k].audioBuffer) = Len(tracks[1].audioBuffer)
    /\ \A ch \in 1..Len(tracks[k].audioBuffer) :
         Len(tracks[k].audioBuffer[ch]) = Len(tracks[1].audioBuffer[1])

RECURSIVE SumOfStems(_, _, _, _)
SumOfStems(tracks, ch, i, k) ==
  IF k = 0 THEN 0 ELSE SumOfStems(tracks, ch, i, k - 1) + tracks[k].audioBuffer[ch][i]

\* C8: in stage 'separated', with every stem at gain 1.0, none muted and the
\* stems of one shape, every sample of every channel of the output buffer is
\* the plain sum of the stems' samples.
C8_AdditiveMix ==
  ( /\ stage = "separated" /\ ~crashed
    /\ Len(separatedTracks) > 0
    /\ \A k \in 1..Len(separatedTracks) :
         separatedTracks[k].gain = Unity /\ ~separatedTracks[k].muted
    /\ EqualShape(separatedTracks) )
  => sepOutputAudioBuffer =
       [ch \in 1..Len(separatedTracks[1].audioBuffer) |->
          [i \in 1..Len(separatedTracks[1].audioBuffer[1]) |->
             SumOfStems(separatedTracks, ch, i, Len(separatedTracks))]]

\* C8 witness: two or more such stems whose sum exceeds full scale in the output.
C8_Witness ==
  /\ stage = "separated" /\ ~crashed
  /\ Len(separatedTracks) >= 2
  /\ \A k \in 1..Len(separatedTracks) :
       separatedTracks[k].gain = Unity /\ ~separatedTracks[k].muted
  /\ EqualShape(separatedTracks)
  /\ sepOutputAudioBuffer # NoAudio
  /\ \E i \in 1..Len(sepOutputAudioBuffer[1]) :
       /\ sepOutputAudioBuffer[1][i] > 100
       /\ sepOutputAudioBuffer[1][i] = SumOfStems(separatedTracks, 1, i, Len(separatedTracks))

\* C9, as claimed: with exactly one stem unmuted, at gain g (g = 0 included),
\* every output sample is g times that stem's sample.
C9_SingleStemScaled ==
  ( /\ stage = "separated" /\ ~crashed
    /\ Len(ActiveTracks(separatedTracks)) = 1
    /\ ActiveTracks(separatedTracks)[1].audioBuffer # NoAudio )
  => LET t == ActiveTracks(separatedTracks)[1]
     IN sepOutputAudioBuffer =
          [ch \in 1..Len(t.audioBuffer) |->
             [i \in 1..Len(t.audioBuffer[ch]) |-> (t.audioBuffer[ch][i] * t.gain) \div Unity]]

\* C10: a mute toggle that leaves every stem muted leaves the output buffer as
\* it was.
C10_AllMutedKeepsOutput ==
  [][ ( /\ sepLast' = "handleMuteToggle"
        /\ Len(separatedTracks') > 0
        /\ \A k \in 1..Len(separatedTracks') : separatedTracks'[k].muted )
      => sepOutputAudioBuffer' = sepOutputAudioBuffer
    ]_sepVars

\* C10 witness: the last stem has just been muted and the output still holds
\* the earlier mix, which is neither null nor silent.
C10_Witness ==
  /\ sepLast = "handleMuteToggle"
  /\ Len(separatedTracks) > 0
  /\ \A k \in 1..Len(separatedTracks) : separatedTracks[k].muted
  /\ sepOutputAudioBuffer # NoAudio
  /\ \E i \in 1..Len(sepOutputAudioBuffer[1]) : sepOutputAudioBuffer[1][i] # 0


\* C11, as claimed: within one instance of the separation screen the stage
\* changes only initial -> separating (handleSeparate), separating -> separated
\* (a separation succeeded) and separating -> initial (a separation failed);
\* and while a separation is awaited, no other step takes the stage out of
\* 'separating'.
C11_StageTransitions ==
  [][ (sepLast' # "mount" /\ stage' # stage) =>
        \/ stage = "initial" /\ stage' = "separating" /\ sepLast' = "handleSeparate"
        \/ stage = "separating" /\ stage' = "separated" /\ sepLast' = "SeparateDone"
        \/ stage = "separating" /\ stage' = "initial" /\ sepLast' = "SeparateFailed"
    ]_sepVars

\* C12, as claimed: when a separation attempt fails, the stage is 'initial',
\* progress is 0, and separatedTracks and the output buffer are what they were
\* when the attempt began.
C12_FailedAttemptDiscarded ==
  [][ sepLast' = "SeparateFailed" =>
        \E i \in DOMAIN separations :
          /\ separations' = RemoveAt(separations, i)
          /\ stage' = "initial"
          /\ progress' = 0
          /\ separatedTracks' = separations[i].tracksBefore
          /\ sepOutputAudioBuffer' = separations[i].outputBefore
    ]_sepVars

\* C13: in every state (each step ends with the mutation settled: the render
\* and the save effect have run) the entry stored under 'equalizer-custom-bands'
\* is the JSON serialization of the current customBands.
C13_StorageFollowsBands ==
  /\ localStorage.present
  /\ localStorage.text = JSONStringify(customBands)

\* C13 witness: a band has just been removed from a list that is not the
\* default one, and the stored entry is the serialization of what is left.
C13_Witness ==
  /\ last = "handleRemoveBand"
  /\ Len(customBands) > 0
  /\ \A i \in 1..Len(customBands) : customBands[i] \notin {getInitialBands[j] : j \in 1..4}
  /\ localStorage.text = JSONStringify(customBands)

\* C14, as claimed: whatever band list the session has reached, the list the
\* next startup would load from storage is that list.
C14_BandsSurviveRestart ==
  InitialCustomBands(localStorage) = customBands

\* C15, as claimed: every band of every list handed to updateEqualizerGains
\* has 0 <= low < high and a numeric gain with 0 <= gain <= 2.
C15_SentBandsWellFormed ==
  \A r \in 1..Len(eqRequests) : \A i \in 1..Len(eqRequests[r].bands) :
    LET b == eqRequests[r].bands[i]
    IN /\ 0 <= b.low /\ b.low < b.high
       /\ b.gain # Undefined
       /\ GainMin <= b.gain /\ b.gain <= GainMax

\* C16, as claimed: a band list sent while a preset mode is selected has six
\* bands, whose low and high are that mode's fixed ranges in slider order.
C16_PresetRangesSent ==
  [][ (last' = "TimerFireCalled" /\ currentMode \in {"music", "animal", "human"}) =>
        LET bands == eqRequests'[Len(eqRequests')].bands
            ranges == PresetRanges(currentMode)
        IN /\ Len(bands) = 6
           /\ \A i \in 1..6 : bands[i].low = ranges[i][1] /\ bands[i].high = ranges[i][2]
    ]_eqVars

\* C17: the panel never has more than one live timeout, the one its ref holds;
\* while the panel is torn down none is live, so none set before the teardown
\* can fire; and a timer becomes pending by a slider movement only.
C17_OneTimerClearedOnTeardown ==
  [][ /\ liveTimeouts' <= 1
      /\ debounceTimer'.pending <=> liveTimeouts' = 1
      /\ ~PanelShown(isLoadingAudio', currentSubMode') => liveTimeouts' = 0
      /\ (debounceTimer'.pending /\ debounceTimer' # debounceTimer) => last' = "handleSliderChange"
      /\ Len(eqRequests') > Len(eqRequests) =>
           (debounceTimer.pending /\ PanelShown(isLoadingAudio, currentSubMode))
    ]_eqVars

\* C17 witness: a slider movement set the timer and, while it was pending, an
\* upload tore the panel down; the cleanup cleared it and no timeout is live.
C17_Witness ==
  /\ last = "UploadStarted"
  /\ ~PanelShown(isLoadingAudio, currentSubMode)
  /\ debounceTimer.cleared
  /\ liveTimeouts = 0

\* C18: a handleAudioUpload call with a null audioBuffer alerts and changes
\* nothing: the file, the buffers, fftData, the bands, the stored entry and
\* isLoadingAudio are as before and no request is made; so no upload awaited
\* ever carries a null buffer.
C18_NullBufferRejected ==
  [][ /\ last' = "UploadRejected" =>
           /\ alert' # "none"
           /\ uploadedAudioFile' = uploadedAudioFile
           /\ inputAudioBuffer' = inputAudioBuffer
           /\ outputAudioBuffer' = outputAudioBuffer
           /\ fftData' = fftData
           /\ customBands' = customBands
           /\ localStorage' = localStorage
           /\ isLoadingAudio' = isLoadingAudio
           /\ uploads' = uploads
           /\ eqRequests' = eqRequests
      /\ \A i \in 1..Len(uploads') : uploads'[i].audioBuffer # NullBuffer
    ]_eqVars

\* C18 witness: a null buffer was rejected while a file was loaded and the band
\* list had been edited; both are still there.
C18_Witness ==
  /\ last = "UploadRejected"
  /\ alert # "none"
  /\ uploadedAudioFile # Null
  /\ inputAudioBuffer # NullBuffer
  /\ customBands # getInitialBands

\* C19, as claimed: when the FFT request of an upload fails, an alert is shown,
\* isLoadingAudio is false, and the input buffer, the output buffer and fftData
\* are what they were.
C19_FailedUploadKeepsAudio ==
  [][ last' = "UploadFailed" =>
        /\ alert' # "none"
        /\ ~isLoadingAudio'
        /\ inputAudioBuffer' = inputAudioBuffer
        /\ outputAudioBuffer' = outputAudioBuffer
        /\ fftData' = fftData
    ]_eqVars

\* C19, amended: when the FFT request of an upload fails, an alert is shown,
\* isLoadingAudio is false, fftData is what it was, and the input and output
\* buffers are both the decoded buffer of that upload.
C19_FailedUploadFallsBack ==
  [][ last' = "UploadFailed" =>
        \E i \in 1..Len(uploads) :
          /\ uploads' = RemoveAt(uploads, i)
          /\ alert' # "none"
          /\ ~isLoadingAudio'
          /\ fftData' = fftData
          /\ inputAudioBuffer' = uploads[i].audioBuffer
          /\ outputAudioBuffer' = uploads[i].audioBuffer
    ]_eqVars

\* C19 witness: a.wav was uploaded and analysed, then the request for b.wav
\* failed: the buffers are b.wav's and fftData is still a.wav's.
C19_Witness ==
  /\ last = "UploadFailed"
  /\ fftData.file = "a.wav"
  /\ uploadedAudioFile = "b.wav"
  /\ inputAudioBuffer = Decoded("b.wav")
  /\ outputAudioBuffer = Decoded("b.wav")

Failures == {"UploadFailed", "EqRequestFailed", "EqLoadFailed"}

NoRetryEq ==
  /\ Len(uploads') > Len(uploads) => last' = "UploadStarted"
  /\ Len(eqRequests') > Len(eqRequests) => (last' = "TimerFireCalled" /\ debounceTimer.pending)
  /\ (debounceTimer'.pending /\ debounceTimer' # debounceTimer) => last' = "handleSliderChange"
  /\ last' \in {"EqRequestFailed", "EqLoadFailed"} =>
       /\ Len(eqRequests') = Len(eqRequests) - 1
       /\ uploads' = uploads
       /\ debounceTimer'.pending => AlreadyProcessing(debounceTimer')
  /\ last' = "UploadFailed" =>
       /\ Len(uploads') = Len(uploads) - 1
       /\ eqRequests' = eqRequests

\* The separation screen retries nothing: a separation request is issued by
\* the Separate button only, and the step in which one fails issues none.
NoRetrySep ==
  /\ Len(separations') > Len(separations) => sepLast' = "handleSeparate"
  /\ Len(separations') < Len(separations) => sepLast' \in {"SeparateFailed", "SeparateDone", "mount"}

GeneratedSpectra == {ValueOf(d) : d \in {viewFftData, viewOutputFftData} \ {Absent}}

\* C21: whatever fftSize and sample rate generateFFTData was called with, its
\* result has exactly fftSize / 2 frequencies and as many magnitudes,
\* frequencies[k] = k * sampleRate / fftSize, strictly ascending, and a
\* bufferLength equal to the number of bins.
C21_HalfSizeBins ==
  \A d \in GeneratedSpectra :
    /\ 2 * Len(d.frequencies) = d.fftSize
    /\ Len(d.magnitudes) = Len(d.frequencies)
    /\ \A k \in DOMAIN d.frequencies : d.frequencies[k] = Rat((k - 1) * d.sampleRate, d.fftSize)
    /\ \A k \in 1..(Len(d.frequencies) - 1) : LessThan(d.frequencies[k], d.frequencies[k + 1])
    /\ d.bufferLength.num = Len(d.frequencies) * d.bufferLength.den

\* x = padding.left + (log10(freq / 125) / log10(8000 / 125)) * chartWidth lies
\* between the chart's edges exactly when 125 <= freq <= 8000.
WithinChart(point) ==
  /\ ~LessThan(point.freq, Rat(AudiogramLow, 1))
  /\ ~LessThan(Rat(AudiogramHigh, 1), point.freq)
TracesWithinChart(drawn) ==
  /\ \A i \in DOMAIN drawn.input : WithinChart(drawn.input[i])
  /\ \A i \in DOMAIN drawn.output : WithinChart(drawn.output[i])

\* C22: in audiogram mode neither view puts a point below 125 Hz or above
\* 8000 Hz on its input or output trace.
C22_AudiogramWithinRange ==
  /\ scaleType = "audiogram" => TracesWithinChart(canvas)
  /\ backendScaleType = "audiogram" => TracesWithinChart(backendCanvas)

AllZeroMagnitudes(input, output) ==
  LET mags == (IF input = Absent THEN <<>> ELSE ValueOf(input).magnitudes)
              \o (IF output = Absent THEN <<>> ELSE ValueOf(output).magnitudes)
  IN mags # <<>> /\ \A i \in DOMAIN mags : mags[i] = 0
TraceSkipped(drawn) == drawn.input = <<>> /\ drawn.output = <<>> /\ ~drawn.dividedByZero

\* C23: when every magnitude of the data to draw is zero, either view draws no
\* trace and divides by no zero maximum.
C23_AllZeroSkipped ==
  /\ (viewFftData # Absent /\ AllZeroMagnitudes(viewFftData, viewOutputFftData)) => TraceSkipped(canvas)
  /\ (backendOutputFftData # Absent /\ AllZeroMagnitudes(inputFftData, backendOutputFftData))
       => TraceSkipped(backendCanvas)

\* The band list the callback would build from the mode and the custom bands
\* of the latest render.
CurrentBands == BuildBands([mode |-> currentMode, customBands |-> customBands], latestValuesRef)

\* C24, as claimed: the band list built at the expiry of the debounce timer is
\* the one of the mode and band list current at that moment, one band per
\* current band with its current range, and every gain is defined.
C24_BandsCurrentAtExpiry ==
  [][ (debounceTimer.pending /\ last' \in TimerFired) =>
        LET built == BuildBands(debounceTimer, TimerCurrentValues(debounceTimer, latestValuesRef))
        IN /\ built = CurrentBands
           /\ \A i \in 1..Len(built) : built[i].gain # Undefined
    ]_eqVars

\* C25, as claimed: while a request of this instance of the separation screen
\* is awaited, the stage is 'separating' (the Separate button is not rendered)
\* and that request is the only one.
C25_OneSeparationInFlight ==
  separations # <<>> => (stage = "separating" /\ Len(separations) = 1)

\* C26: with every progress callback reporting a value in [0, 1] (0..100
\* percent), the progress is within 0..100 in every state, is 100 in the step
\* that makes the stage 'separated', and is 0 in the step in which an attempt
\* fails.
C26_ProgressBounds ==
  /\ [](0 <= progress /\ progress <= 100)
  /\ [][ /\ (stage' = "separated" /\ stage # "separated") => progress' = 100
         /\ sepLast' = "SeparateFailed" => progress' = 0
       ]_sepVars

\* C26 witness: a separation has completed and built its tracks, and the
\* progress stands at 100.
C26_Witness ==
  /\ sepLast = "SeparateDone"
  /\ stage = "separated"
  /\ progress = 100
  /\ separatedTracks # <<>>

TrackControls == {"handleGainChange", "handleMuteToggle", "handleSoloToggle"}
SameAudio(tracks, others) ==
  /\ Len(tracks) = Len(others)
  /\ \A k \in DOMAIN tracks : tracks[k].audioBuffer = others[k].audioBuffer

\* C27: no recomputation of the mix changes a sample of a stem's buffer or of
\* the input buffer: a gain, mute or solo change leaves every track's audio and
\* the input audio as they were, the tracks a completed separation installs
\* hold exactly the audio that was loaded for them, and the input audio changes
\* only when a file has been decoded or the screen is mounted.
C27_MixWritesNewBuffer ==
  [][ /\ sepLast' \in TrackControls =>
           /\ SameAudio(separatedTracks', separatedTracks)
           /\ sepInputAudioBuffer' = sepInputAudioBuffer
      /\ sepLast' = "SeparateDone" =>
           \E i \in DOMAIN separations, stems \in VoiceStems \cup InstrumentStems :
             /\ stems \in (IF separations[i].type = "music" THEN InstrumentStems ELSE VoiceStems)
             /\ separatedTracks' = BuildTracks(separations[i].type, stems, separations[i].inputAudioBuffer)
             /\ sepInputAudioBuffer' = sepInputAudioBuffer
      /\ sepInputAudioBuffer' # sepInputAudioBuffer => sepLast' \in {"DecodeDone", "mount"}
    ]_sepVars

\* C27 witness: after a gain change the output is a mix that differs from the
\* audio of every track.
C27_Witness ==
  /\ sepLast = "handleGainChange"
  /\ stage = "separated"
  /\ sepOutputAudioBuffer # NoAudio
  /\ Len(ActiveTracks(separatedTracks)) >= 2
  /\ \A k \in DOMAIN separatedTracks : separatedTracks[k].audioBuffer # sepOutputAudioBuffer

\* c is v clamped into [0, 2].
ClampedTo(v, c) ==
  \/ v < GainMin /\ c = GainMin
  \/ v > GainMax /\ c = GainMax
  \/ GainMin <= v /\ v <= GainMax /\ c = v

\* C28: a slider movement (index, v) puts v clamped into [0, 2] at index of the
\* slider values in that very step, the ref following, leaves every other
\* value as it was, and in generic mode writes the same clamped value into the
\* gain of band index of customBands, every other band and field unchanged.
C28_SliderSetsClampedValue ==
  [][ last' = "handleSliderChange" =>
        \E index \in DOMAIN values, v \in SliderInputs :
          /\ DOMAIN values' = DOMAIN values
          /\ ClampedTo(v, values'[index])
          /\ \A j \in DOMAIN values \ {index} : values'[j] = values[j]
          /\ latestValuesRef' = values'
          /\ IF currentMode = "generic"
             THEN /\ index \in DOMAIN customBands
                  /\ customBands' = [customBands EXCEPT ![index].gain = values'[index]]
             ELSE customBands' = customBands
    ]_eqVars

\* C28 witness: a slider of the generic mode was pushed beyond its range; the
\* value and the band's gain both stand at 2.0, the other gains at 1.0.
C28_Witness ==
  /\ last = "handleSliderChange"
  /\ currentMode = "generic"
  /\ \E index \in DOMAIN values :
       /\ values[index] = GainMax
       /\ customBands[index].gain = GainMax
       /\ \A j \in DOMAIN values \ {index} : values[j] = Unity

C30_LastSliderStateSent ==
  [][ ( /\ debounceTimer.pending
        /\ debounceTimer.isProcessingEqualizer
        /\ eqRequests = <<>>
        /\ ~isProcessingEqualizer
        /\ last' \in TimerFired )
      => /\ last' = "TimerFireCalled"
         /\ Len(eqRequests') = 1
         /\ \A idx \in DOMAIN eqRequests'[1].bands :
              eqRequests'[1].bands[idx].gain = latestValuesRef[idx]
    ]_eqVars

\* C31: in generic mode, once a step has settled, the panel shows one slider
\* per band of customBands and the value of each equals the gain of the band
\* at the same index.
C31_SlidersFollowBands ==
  (currentMode = "generic" /\ PanelShown(isLoadingAudio, currentSubMode))
    => /\ Len(values) = Len(customBands)
       /\ \A i \in DOMAIN values : values[i] = customBands[i].gain

\* C32: with a backend that eventually answers, isProcessingEqualizer, once
\* true, returns to false, and isLoadingAudio, once true, returns to false.
C32_FlagsReturn ==
  /\ isProcessingEqualizer ~> ~isProcessingEqualizer
  /\ isLoadingAudio ~> ~isLoadingAudio

\* C32 witness: a re-equalize request of an uploaded file has been rejected and
\* nothing is awaited any more: both flags are down again.
C32_Witness ==
  /\ last \in {"EqRequestFailed", "EqLoadFailed"}
  /\ uploadedAudioFile # Null
  /\ eqRequests = <<>> /\ uploads = <<>>
  /\ ~isProcessingEqualizer
  /\ ~isLoadingAudio

\* C33: a reset in the control panel issues no backend request, leaves
\* outputAudioBuffer and fftData unchanged and leaves the debounce timer as it
\* was, neither started nor cancelled, whether or not a timer is pending.
C33_ResetLeavesOutput ==
  [][ HandleReset =>
        /\ eqRequests' = eqRequests
        /\ uploads' = uploads
        /\ outputAudioBuffer' = outputAudioBuffer
        /\ fftData' = fftData
        /\ debounceTimer' = debounceTimer
        /\ liveTimeouts' = liveTimeouts
        /\ isProcessingEqualizer' = isProcessingEqualizer
    ]_eqVars

\* C33 witness: a reset made with no timer pending, after a re-equalize
\* request with a lowered gain has completed: the sliders are back at 1.0 and
\* the output audio is still the one equalized with the gains sent before.
C33_Witness ==
  /\ last = "handleReset"
  /\ ~debounceTimer.pending
  /\ values = Ones(Len(values))
  /\ outputAudioBuffer.kind = "equalized"
  /\ \E idx \in DOMAIN outputAudioBuffer.bands : outputAudioBuffer.bands[idx].gain # Unity
  /\ fftData.op = "updateEqualizerGains"

\* A stem that is not muted, whatever its solo flag.
Unmuted(t) == ~t.muted

\* C34: toggling solo on a stem changes only that stem's solo flag, and the
\* output keeps the samples it had: the mix of exactly the unmuted stems.
C34_SoloLeavesMix ==
  [][ sepLast' = "handleSoloToggle" =>
        /\ \E k \in DOMAIN separatedTracks :
             separatedTracks' =
               [separatedTracks EXCEPT ![k].solo = ~separatedTracks[k].solo]
        /\ sepOutputAudioBuffer' = sepOutputAudioBuffer
        /\ ~crashed'
        /\ LET unmuted == SelectSeq(separatedTracks', Unmuted)
           IN (Len(unmuted) > 0 /\ unmuted[1].audioBuffer # NoAudio)
                => sepOutputAudioBuffer' = MixedBuffer(unmuted)
    ]_sepVars

\* C34 witness: solo has been toggled on one of several stems, a stem is
\* muted, and the output is the mix of the stems that are not muted.
C34_Witness ==
  /\ sepLast = "handleSoloToggle"
  /\ stage = "separated"
  /\ \E k \in DOMAIN separatedTracks : separatedTracks[k].solo
  /\ \E k \in DOMAIN separatedTracks : separatedTracks[k].muted
  /\ Len(SelectSeq(separatedTracks, Unmuted)) > 0
  /\ sepOutputAudioBuffer = MixedBuffer(SelectSeq(separatedTracks, Unmuted))

\* C35: when an instrument separation succeeds, separatedTracks becomes six
\* tracks in the order drums, bass, vocals, guitar, piano, other, each with gain
\* 1.0, not muted and not solo, and a stem the backend returned no file for
\* carries the input audio buffer as its audio.
C35_SixInstrumentTracks ==
  [][ \A i \in DOMAIN separations :
        ( /\ sepLast' = "SeparateDone"
          /\ separations[i].type = "music"
          /\ separations' = RemoveAt(separations, i) )
        => \E stems \in InstrumentStems :
             /\ Len(separatedTracks') = 6
             /\ \A k \in 1..6 :
                  separatedTracks'[k] =
                    [id |-> << "drums", "bass", "vocals", "guitar", "piano", "other" >>[k],
                     audioBuffer |-> IF stems[k] # NoAudio THEN stems[k]
                                     ELSE sepInputAudioBuffer',
                     gain |-> Unity, muted |-> FALSE, solo |-> FALSE]
             /\ \A k \in 1..6 : separatedTracks'[k].audioBuffer # NoAudio
    ]_sepVars

\* C36: while no audio file is uploaded, no debounce timer is pending and no
\* re-equalize request is awaited, and a slider movement changes the value
\* shown at its index and nothing of the timer, the requests, the buffers or
\* fftData.
C36_NoFileNoRequest ==
  /\ [](uploadedAudioFile = Null =>
          /\ ~debounceTimer.pending
          /\ liveTimeouts = 0
          /\ eqRequests = <<>>
          /\ ~isProcessingEqualizer)
  /\ [][ (uploadedAudioFile = Null /\ last' = "handleSliderChange") =>
           /\ \E index \in DOMAIN values :
                \A i \in DOMAIN values : i # index => values'[i] = values[i]
           /\ debounceTimer' = debounceTimer
           /\ eqRequests' = eqRequests
           /\ fftData' = fftData
           /\ inputAudioBuffer' = inputAudioBuffer
           /\ outputAudioBuffer' = outputAudioBuffer
           /\ isProcessingEqualizer' = isProcessingEqualizer
     ]_eqVars

\* C36 witness: with no file uploaded a slider has been moved away from 1.0:
\* the panel shows the new value, no timer is pending and nothing was sent.
C36_Witness ==
  /\ last = "handleSliderChange"
  /\ uploadedAudioFile = Null
  /\ \E i \in DOMAIN values : values[i] # Unity
  /\ ~debounceTimer.pending
  /\ eqRequests = <<>>

====
